---- MODULE Spec2Model ----
(***************************************************************************)
(* Model of py21cmmc's module/chain orchestration layer                    *)
(* (src/src/py21cmmc/core.py, src/src/py21cmmc/mcmc/mcmc.py).              *)
(*                                                                         *)
(* One module ("stage") is followed through its life: construction,        *)
(* attachment to a LikelihoodComputationChain, setup(), the chain          *)
(* dependent properties and the per-iteration build_model_data().          *)
(* The simulation engine (py21cmfast) is external; it is modelled by what  *)
(* core.py passes to it and reads back from it.                            *)
(*                                                                         *)
(* Specifications:                                                         *)
(*   Spec        life of a stage in a chain and its chain properties       *)
(*   SpecCoeval  seed and caching policy and parameter overlay             *)
(*   SpecBuild   build_computation_chain                                   *)
(*   SpecFields  context entries, redshifts, simulate_mock and __call__    *)
(*   SpecEq      ModuleBase.__eq__                                         *)
(*   SpecStore   CoreBase.prepare_storage                                  *)
(*   SpecLF      CoreLuminosityFunction.build_model_data                   *)
(*   SpecMock    CoreLuminosityFunction.sigma and convert_model_to_mock    *)
(***************************************************************************)
EXTENDS Integers, Sequences, FiniteSets, TLC

VARIABLES
    stage,      \* the Python object under study (its attributes), or NoStage
    chains,     \* the LikelihoodComputationChain objects: id -> [params, cores]
    engine,     \* the external engine: next object identity handed out
    ctx,        \* the context of the current sampler iteration
    ret,        \* outcome of the last call made on the stage
    hist,       \* engine requests made by setup() and by the last two iterations
    other,      \* a second module, the right-hand side of a comparison
    calls,      \* the calls made by the last operation on other methods, in order
    storage,    \* the storage mapping handed to prepare_storage
    builder     \* progress of build_computation_chain

vars == <<stage, chains, engine, ctx, ret, hist, other, calls, storage, builder>>

\* The variables that the life of a single stage in a chain leaves alone.
aside == <<other, calls, storage, builder>>

----------------------------------------------------------------------------
(* Bounds of the model *)

MaxCores == 2       \* other core modules loaded into the chains
MaxSetups == 2      \* setup() calls that complete on the stage
MaxIter == 2        \* build_model_data() iterations
MaxSeed == 1        \* seeds are 0..MaxSeed

----------------------------------------------------------------------------
(* Python values *)

NoSeed == -1        \* initial_conditions_seed = None
Seeds == 0 .. MaxSeed
SeedArgs == {NoSeed} \cup Seeds

\* Python truthiness of an optional int: None and 0 are falsy.
Truthy(x) == x # NoSeed /\ x # 0

Min(S) == CHOOSE x \in S : \A y \in S : x <= y

\* Fields of the engine's AstroParams / CosmoParams structures, and a name
\* that belongs to neither.
AstroNames == {"HII_EFF_FACTOR"}
CosmoNames == {"SIGMA_8"}
OtherNames == {"unknown_param"}
ParamNames == AstroNames \cup CosmoNames \cup OtherNames
Vals == {0, 1}
DefaultAstro == [k \in AstroNames |-> 0]
DefaultCosmo == [k \in CosmoNames |-> 0]

\* Attributes of the engine's Coeval result that a stage may copy to the context.
CoevalFields == {"brightness_temp", "xH_box"}

----------------------------------------------------------------------------
(* Classes *)

\* Direct base class of each class.  UserLikelihood and UserCore stand for
\* user-defined subclasses of ModuleBase and CoreBase.
Base(c) ==
    CASE c = "CoreBase" -> "ModuleBase"
      [] c = "CoreCoevalModule" -> "CoreBase"
      [] c = "CoreLightConeModule" -> "CoreCoevalModule"
      [] c = "CoreLuminosityFunction" -> "CoreCoevalModule"
      [] c = "UserCore" -> "CoreBase"
      [] c = "UserLikelihood" -> "ModuleBase"
      [] OTHER -> "object"

RECURSIVE Mro(_)
Mro(c) == IF c = "object" THEN {} ELSE {c} \cup Mro(Base(c))

\* isinstance(m, r) for an instance m of class cls.
IsInstance(cls, r) == r \in Mro(cls)

\* An element of required_cores: a single class, or a tuple of alternatives.
Single(c) == [tuple |-> FALSE, members |-> <<c>>]
Group(cs) == [tuple |-> TRUE, members |-> cs]

\* hasattr(rc, "__len__"): true of a tuple, false of a class.
HasLen(rc) == rc.tuple

\* rc.__class__.__name__: the name of rc's type, "tuple" for a tuple and
\* "type" (the metaclass) for a class.
TypeName(rc) == IF rc.tuple THEN "tuple" ELSE "type"

----------------------------------------------------------------------------
(* The stage and the chains *)

NoChain == 0        \* the _LikelihoodComputationChain attribute is not set
SubjectId == 0      \* identity of the stage among the loaded cores

\* sigma=None of CoreLuminosityFunction.__init__.  A noise specification is
\* a record of a kind, the numbers v of a float (one), of a callable (one,
\* its identity) or of a 1-D array, and the entries rows of a list.
NoneSigma == [kind |-> "None", v |-> <<>>, rows |-> <<>>]

NoStage ==
    [kind |-> "none", cls |-> "object", required_cores |-> <<>>,
     is_setup |-> FALSE, chain |-> NoChain,
     redshift |-> <<>>, astro_params |-> DefaultAstro, cosmo_params |-> DefaultCosmo,
     change_seed_every_iter |-> FALSE, initial_conditions_seed |-> NoSeed,
     regenerate |-> TRUE, ctx_variables |-> <<>>, cache_mcmc |-> FALSE,
     store |-> <<>>, name |-> "", n_muv_bins |-> 0, _sigma |-> NoneSigma]

NoCtx == [params |-> <<>>, data |-> <<>>]

\* What a call on the stage did: the value it returned or the exception it
\* raised with the arguments of its message, together with the stage's
\* situation when the call was made (attached or not, completed setups,
\* the core modules loaded in its chain).
Situation ==
    [attached |-> stage.chain # NoChain, setups |-> hist.setups,
     cores |-> IF stage.chain = NoChain THEN <<>> ELSE chains[stage.chain].cores]
Ok(op, val) ==
    [op |-> op, err |-> "", msg |-> <<>>, val |-> val, at |-> Situation]
Raise(op, err, msg) ==
    [op |-> op, err |-> err, msg |-> msg, val |-> <<>>, at |-> Situation]
NoRet ==
    [op |-> "", err |-> "", msg |-> <<>>, val |-> <<>>,
     at |-> [attached |-> FALSE, setups |-> 0, cores |-> <<>>]]

\* Outcome of a property or helper: a value, or an exception.
Value(v) == [err |-> "", msg |-> <<>>, val |-> v]
Error(err, msg) == [err |-> err, msg |-> msg, val |-> <<>>]
NoError == Value(<<>>)

----------------------------------------------------------------------------
(* LikelihoodComputationChain (py21cmmc.mcmc.cosmoHammer) *)

ChainIds == {1, 2}

NewChain(params) == [params |-> params, cores |-> <<>>, likelihoods |-> <<>>]

\* chain.getCoreModules()
getCoreModules(c) == chains[c].cores

\* chain.createChainContext().getParams(): the chain's parameters at their
\* initial values.
createChainContext(c) == [params |-> chains[c].params, data |-> <<>>]

\* Number of core modules other than the stage that have been loaded.
OthersLoaded ==
    Cardinality({<<c, i>> \in ChainIds \X (1 .. MaxCores + 1) :
                    /\ c \in DOMAIN chains
                    /\ i \in DOMAIN chains[c].cores
                    /\ chains[c].cores[i].id # SubjectId})

\* chain.addCoreModule(m) for another core module m of class cls.
AddCoreModule(c, cls) ==
    /\ c \in DOMAIN chains
    /\ OthersLoaded < MaxCores
    /\ chains' = [chains EXCEPT ![c].cores =
                     Append(@, [id |-> OthersLoaded + 1, cls |-> cls])]
    /\ UNCHANGED <<stage, engine, ctx, ret, hist>>
    /\ UNCHANGED aside

\* chain.addCoreModule(stage): loads the stage and sets its back-reference.
AttachCore(c) ==
    /\ c \in DOMAIN chains
    /\ stage.kind \in {"core", "coeval"}
    /\ stage.chain = NoChain
    /\ chains' = [chains EXCEPT ![c].cores =
                     Append(@, [id |-> SubjectId, cls |-> stage.cls])]
    /\ stage' = [stage EXCEPT !.chain = c]
    /\ UNCHANGED <<engine, ctx, ret, hist>>
    /\ UNCHANGED aside

\* chain.addLikelihoodModule(stage): loads the stage and sets its back-reference.
AttachLikelihood(c) ==
    /\ c \in DOMAIN chains
    /\ stage.kind = "module"
    /\ stage.chain = NoChain
    /\ chains' = [chains EXCEPT ![c].likelihoods =
                     Append(@, [id |-> SubjectId, cls |-> stage.cls])]
    /\ stage' = [stage EXCEPT !.chain = c]
    /\ UNCHANGED <<engine, ctx, ret, hist>>
    /\ UNCHANGED aside

----------------------------------------------------------------------------
(* ModuleBase *)

\* ModuleBase.__init__ / CoreBase.__init__ of a subclass cls that declares
\* required_cores = rq.
ModuleInit(kind, cls, rq) ==
    [NoStage EXCEPT !.kind = kind, !.cls = cls, !.required_cores = rq,
                    !.is_setup = FALSE]

\* Faulty variant of chain: the wrong exception class is raised.
chain_WrongError(s) ==
    IF s.chain = NoChain THEN Error("NotSetupError", <<>>) ELSE Value(s.chain)

\* ModuleBase.chain: the attribute, or NotAChain when it is not set.
chain(s) ==
    IF s.chain = NoChain THEN Error("NotAChain", <<>>) ELSE Value(s.chain)

\* ModuleBase.parameter_names (after self.chain succeeded): the keys of the
\* chain's parameters, none when the chain has no parameters.
parameter_names(s) == DOMAIN chains[chain(s).val].params

\* ModuleBase._cores (after self.chain succeeded).
cores(s) == getCoreModules(chain(s).val)

\* _utils.flatten(required_cores): the classes of all groups, in order.
RECURSIVE flatten(_)
flatten(rq) ==
    IF rq = <<>> THEN <<>> ELSE Head(rq).members \o flatten(Tail(rq))

\* The inner loops of _rq_cores for one core: the core once for every
\* requirement it is an instance of.
RqMatches(core, req) ==
    LET n == Cardinality({j \in DOMAIN req : IsInstance(core.cls, req[j])})
    IN  [i \in 1 .. n |-> core]

RECURSIVE RqOver(_, _)
RqOver(cs, req) ==
    IF cs = <<>> THEN <<>>
    ELSE RqMatches(Head(cs), req) \o RqOver(Tail(cs), req)

\* ModuleBase._rq_cores (after self.chain succeeded).
rq_cores(s) == RqOver(cores(s), flatten(s.required_cores))

\* rc = (rc,) unless rc has a length.
Wrapped(rc) == IF HasLen(rc) THEN rc ELSE Group(rc.members)

\* any(any(isinstance(m, r) for r in rc) for m in self._cores)
AnyInstance(rc, cs) ==
    \E i \in DOMAIN cs : \E j \in DOMAIN rc.members :
        IsInstance(cs[i].cls, rc.members[j])

\* Faulty variant of ModuleBase._check_required_cores: one satisfied group is
\* enough.
ModuleBase_check_AnyGroup(s) ==
    LET rq == s.required_cores
        bad == {i \in DOMAIN rq : ~AnyInstance(Wrapped(rq[i]), cores(s))}
    IN  IF rq = <<>> THEN NoError
        ELSE IF chain(s).err # "" THEN chain(s)
        ELSE IF bad # DOMAIN rq THEN NoError
        ELSE Error("ValueError", <<s.cls, TypeName(Wrapped(rq[Min(bad)]))>>)

\* ModuleBase._check_required_cores: the first group without a loaded
\* instance raises; self._cores is only read inside the loop.
ModuleBase_check_required_cores(s) ==
    LET rq == s.required_cores
        bad == {i \in DOMAIN rq : ~AnyInstance(Wrapped(rq[i]), cores(s))}
    IN  IF rq = <<>> THEN NoError
        ELSE IF chain(s).err # "" THEN chain(s)
        ELSE IF bad = {} THEN NoError
        ELSE Error("ValueError", <<s.cls, TypeName(Wrapped(rq[Min(bad)]))>>)

----------------------------------------------------------------------------
(* CoreBase *)

\* The inner loop of CoreBase._check_required_cores for one loaded core:
\* 0 when the loop ends or breaks, else the index of the requirement named
\* in the ValueError.
CoreBaseInner(s, core) ==
    LET rq == s.required_cores
        stop == {j \in DOMAIN rq :
                    \/ core.cls = TypeName(rq[j])
                    \/ core.cls = s.cls}
    IN  IF stop = {} THEN 0
        ELSE IF core.cls = TypeName(rq[Min(stop)]) THEN 0
        ELSE Min(stop)

\* CoreBase._check_required_cores: self._cores is read first.
CoreBase_check_required_cores(s) ==
    IF chain(s).err # "" THEN chain(s)
    ELSE LET cs == cores(s)
             bad == {i \in DOMAIN cs : CoreBaseInner(s, cs[i]) # 0}
         IN  IF bad = {} THEN NoError
             ELSE Error("ValueError",
                        <<s.cls,
                          TypeName(s.required_cores[CoreBaseInner(s, cs[Min(bad)])])>>)

\* self._check_required_cores() as dispatched on the stage's class.
check_required_cores(s) ==
    IF s.kind = "module" THEN ModuleBase_check_required_cores(s)
    ELSE CoreBase_check_required_cores(s)

----------------------------------------------------------------------------
(* The external engine (py21cmfast), as core.py uses it *)

NoIC == [id |-> 0, random_seed |-> NoSeed, cosmo_params |-> DefaultCosmo]

\* The seeds p21.initial_conditions may give the boxes it returns: the seed
\* asked for, or, when none is asked for, one drawn at random or adopted
\* from a matching cached box.
EngineSeeds(random_seed) ==
    IF random_seed = NoSeed THEN Seeds ELSE {random_seed}

\* p21.initial_conditions(cosmo_params=, random_seed=): a new object.
initial_conditions(cosmo_params, seed) ==
    [id |-> engine.nextId, random_seed |-> seed, cosmo_params |-> cosmo_params]

\* p21.perturb_field(redshift=z, init_boxes=) for every z of the list.
perturb_fields(redshift, init_boxes, regenerate) ==
    [i \in DOMAIN redshift |->
        [redshift |-> redshift[i], init_boxes |-> init_boxes.id,
         regenerate |-> regenerate]]

\* p21.run_coeval(redshift=, astro_params=, init_box=, random_seed=): one
\* Coeval per redshift.
run_coeval(redshift, astro_params, init_box, random_seed) ==
    [i \in DOMAIN redshift |->
        [redshift |-> redshift[i], astro_params |-> astro_params,
         init_box |-> init_box.id, random_seed |-> random_seed]]

\* hasattr(c, key) for a Coeval c.
HasField(key) == key \in CoevalFields

\* getattr(c, key) for a Coeval c: that field of the cube c.
GetField(c, key) == [field |-> key, redshift |-> c.redshift]

\* The engine requests of one setup() or one build_model_data().
NoCall ==
    [made |-> FALSE, setups |-> 0, cosmo_params |-> DefaultCosmo,
     random_seed |-> NoSeed, regenerate |-> FALSE, ic |-> NoIC,
     perturb |-> <<>>, coeval |-> <<>>]

NoHist ==
    [setups |-> 0, setupCall |-> NoCall,
     iters |-> 0, lastBuild |-> NoCall, prevBuild |-> NoCall]

\* Before build_computation_chain is called.
NoBuilder == [pc |-> "idle", core_modules |-> <<>>, likelihood_modules |-> <<>>]

\* No comparison, storage or chain construction is under way.
InitAside ==
    /\ other = NoStage
    /\ calls = <<>>
    /\ storage = <<>>
    /\ builder = NoBuilder

----------------------------------------------------------------------------
(* CoreCoevalModule *)

\* A redshift argument: a scalar, or a sequence.
Scalar(z) == [scalar |-> TRUE, num |-> z, seq |-> <<>>]
List(zs) == [scalar |-> FALSE, num |-> 0, seq |-> zs]

\* Faulty variant of CoevalInit: a scalar redshift is not wrapped in a list.
CoevalInit_NotWrapped(a) ==
    [NoStage EXCEPT
        !.kind = "coeval", !.cls = "CoreCoevalModule",
        !.redshift = a.redshift.seq,
        !.astro_params = a.astro_params,
        !.cosmo_params = a.cosmo_params,
        !.change_seed_every_iter = a.change_seed_every_iter,
        !.initial_conditions_seed =
            IF Truthy(a.initial_conditions_seed) /\ a.change_seed_every_iter
            THEN NoSeed ELSE a.initial_conditions_seed,
        !.regenerate = a.regenerate,
        !.ctx_variables = a.ctx_variables,
        !.cache_mcmc = a.cache_mcmc]

\* CoreCoevalModule.__init__
CoevalInit(a) ==
    LET redshift == IF a.redshift.scalar THEN <<a.redshift.num>>
                    ELSE a.redshift.seq
        drop == Truthy(a.initial_conditions_seed) /\ a.change_seed_every_iter
    IN  [NoStage EXCEPT
            !.kind = "coeval", !.cls = "CoreCoevalModule",
            !.is_setup = FALSE,
            !.redshift = redshift,
            !.astro_params = a.astro_params,
            !.cosmo_params = a.cosmo_params,
            !.change_seed_every_iter = a.change_seed_every_iter,
            !.initial_conditions_seed =
                IF drop THEN NoSeed ELSE a.initial_conditions_seed,
            !.regenerate = a.regenerate,
            !.ctx_variables = a.ctx_variables,
            !.cache_mcmc = a.cache_mcmc]

\* Faulty variant of update_params: the sampled values are not applied.
update_params_Fiducial(s, params) ==
    [astro_params |-> s.astro_params, cosmo_params |-> s.cosmo_params]

\* CoreCoevalModule._update_params: the fiducial structures overlaid with
\* the sampled values of the names that are fields of each.
update_params(s, params) ==
    [astro_params |->
        [k \in AstroNames |->
            IF k \in DOMAIN params THEN params[k] ELSE s.astro_params[k]],
     cosmo_params |->
        [k \in CosmoNames |->
            IF k \in DOMAIN params THEN params[k] ELSE s.cosmo_params[k]]]

\* Faulty variant of InitForChain: change_seed_every_iter is not consulted.
InitForChain_IgnoreChange(s) ==
    ~(\E p \in parameter_names(s) : p \in DOMAIN s.cosmo_params)

\* The test of CoreCoevalModule.setup that decides whether the boxes are
\* initialized for the entire chain.
InitForChain(s) ==
    /\ ~(\E p \in parameter_names(s) : p \in DOMAIN s.cosmo_params)
    /\ ~s.change_seed_every_iter

\* Faulty variant of get_current_init_and_perturb: no seed is passed to the
\* engine.
get_current_init_and_perturb_NoSeed(s, cosmo_params, sd) ==
    LET ic == initial_conditions(cosmo_params, sd)
    IN  [made |-> TRUE, setups |-> hist.setups,
         cosmo_params |-> cosmo_params,
         random_seed |-> NoSeed,
         regenerate |-> FALSE,
         ic |-> ic,
         perturb |-> perturb_fields(s.redshift, ic, FALSE),
         coeval |-> <<>>]

\* CoreCoevalModule.get_current_init_and_perturb, the engine giving the
\* boxes the seed sd.
get_current_init_and_perturb(s, cosmo_params, sd) ==
    LET ic == initial_conditions(cosmo_params, sd)
    IN  [made |-> TRUE, setups |-> hist.setups,
         cosmo_params |-> cosmo_params,
         random_seed |-> s.initial_conditions_seed,
         regenerate |-> FALSE,
         ic |-> ic,
         perturb |-> perturb_fields(s.redshift, ic, FALSE),
         coeval |-> <<>>]

\* The engine requests of CoreCoevalModule.setup when it initializes the
\* boxes for the entire chain, the engine giving the boxes the seed sd.
setup_init_and_perturb(s, sd) ==
    LET ic == initial_conditions(s.cosmo_params, sd)
    IN  [made |-> TRUE, setups |-> hist.setups,
         cosmo_params |-> s.cosmo_params,
         random_seed |-> s.initial_conditions_seed,
         regenerate |-> s.regenerate,
         ic |-> ic,
         perturb |-> perturb_fields(s.redshift, ic, s.regenerate),
         coeval |-> <<>>]

\* Faulty variant of SeedAfterSetup: the seed is not updated.
SeedAfterSetup_Keep(s, ic) == s.initial_conditions_seed

\* "update the seed" in CoreCoevalModule.setup.
SeedAfterSetup(s, ic) == ic.random_seed

\* ctx.add(key, value)
ctx_add(data, key, value) ==
    [k \in DOMAIN data \cup {key} |-> IF k = key THEN value ELSE data[k]]

\* Faulty variant of AddVariables: only the first redshift's value is stored.
RECURSIVE AddVariables_FirstOnly(_, _, _)
AddVariables_FirstOnly(keys, coeval, data) ==
    IF keys = <<>> THEN [err |-> "", key |-> "", data |-> data]
    ELSE IF coeval # <<>> /\ ~HasField(Head(keys))
         THEN [err |-> "ValueError", key |-> Head(keys), data |-> data]
    ELSE AddVariables_FirstOnly(Tail(keys), coeval,
            ctx_add(data, Head(keys),
                    [i \in DOMAIN coeval \cap {1} |->
                        GetField(coeval[i], Head(keys))]))

\* Faulty variant of AddVariables: a name that is no attribute of Coeval is
\* passed over.
RECURSIVE AddVariables_PassOver(_, _, _)
AddVariables_PassOver(keys, coeval, data) ==
    IF keys = <<>> THEN [err |-> "", key |-> "", data |-> data]
    ELSE IF coeval # <<>> /\ ~HasField(Head(keys))
         THEN AddVariables_PassOver(Tail(keys), coeval, data)
    ELSE AddVariables_PassOver(Tail(keys), coeval,
            ctx_add(data, Head(keys),
                    [i \in DOMAIN coeval |-> GetField(coeval[i], Head(keys))]))

\* The loop of build_model_data over ctx_variables: the context data after
\* it, and the key of the ValueError if one is raised.
RECURSIVE AddVariables(_, _, _)
AddVariables(keys, coeval, data) ==
    IF keys = <<>> THEN [err |-> "", key |-> "", data |-> data]
    ELSE IF coeval # <<>> /\ ~HasField(Head(keys))
         THEN [err |-> "ValueError", key |-> Head(keys), data |-> data]
    ELSE AddVariables(Tail(keys), coeval,
            ctx_add(data, Head(keys),
                    [i \in DOMAIN coeval |-> GetField(coeval[i], Head(keys))]))

----------------------------------------------------------------------------
(* Actions: construction *)

\* An instance of a subclass of ModuleBase or CoreBase is constructed.
Construct(kind, cls, rq) ==
    /\ stage = NoStage
    /\ stage' = ModuleInit(kind, cls, rq)
    /\ ret' = Ok("__init__", <<>>)
    /\ UNCHANGED <<chains, engine, ctx, hist>>
    /\ UNCHANGED aside

\* CoreCoevalModule(**a)
ConstructCoeval(a) ==
    /\ stage = NoStage
    /\ stage' = CoevalInit(a)
    /\ ret' = Ok("__init__", a)
    /\ UNCHANGED <<chains, engine, ctx, hist>>
    /\ UNCHANGED aside

----------------------------------------------------------------------------
(* Actions: chain dependent properties *)

\* stage.chain
GetChain ==
    /\ stage # NoStage
    /\ ret' = IF chain(stage).err # "" THEN Raise("chain", chain(stage).err, <<>>)
              ELSE Ok("chain", chain(stage).val)
    /\ UNCHANGED <<stage, chains, engine, ctx, hist>>
    /\ UNCHANGED aside

\* stage.parameter_names
GetParameterNames ==
    /\ stage # NoStage
    /\ ret' = IF chain(stage).err # ""
              THEN Raise("parameter_names", chain(stage).err, <<>>)
              ELSE Ok("parameter_names", parameter_names(stage))
    /\ UNCHANGED <<stage, chains, engine, ctx, hist>>
    /\ UNCHANGED aside

\* stage._cores
GetCores ==
    /\ stage # NoStage
    /\ ret' = IF chain(stage).err # "" THEN Raise("_cores", chain(stage).err, <<>>)
              ELSE Ok("_cores", cores(stage))
    /\ UNCHANGED <<stage, chains, engine, ctx, hist>>
    /\ UNCHANGED aside

\* stage._rq_cores
GetRqCores ==
    /\ stage # NoStage
    /\ ret' = IF chain(stage).err # ""
              THEN Raise("_rq_cores", chain(stage).err, <<>>)
              ELSE Ok("_rq_cores", rq_cores(stage))
    /\ UNCHANGED <<stage, chains, engine, ctx, hist>>
    /\ UNCHANGED aside

\* stage.core_primary
GetCorePrimary ==
    /\ stage # NoStage
    /\ ret' = IF chain(stage).err # ""
              THEN Raise("core_primary", chain(stage).err, <<>>)
              ELSE IF rq_cores(stage) # <<>>
              THEN Ok("core_primary", rq_cores(stage)[1])
              ELSE IF cores(stage) # <<>>
              THEN Ok("core_primary", cores(stage)[1])
              ELSE Raise("core_primary", "IndexError", <<>>)
    /\ UNCHANGED <<stage, chains, engine, ctx, hist>>
    /\ UNCHANGED aside

----------------------------------------------------------------------------
(* Actions: setup *)

\* ModuleBase.setup, for a stage whose class does not override it.
Setup ==
    /\ stage.kind \in {"module", "core"}
    /\ hist.setups < MaxSetups
    /\ LET chk == check_required_cores(stage)
       IN  IF chk.err # ""
           THEN /\ ret' = Raise("setup", chk.err, chk.msg)
                /\ UNCHANGED hist
           ELSE /\ ret' = Ok("setup", <<>>)
                /\ hist' = [hist EXCEPT !.setups = @ + 1]
    /\ UNCHANGED <<stage, chains, engine, ctx>>
    /\ UNCHANGED aside

\* CoreCoevalModule.setup
CoevalSetup ==
    /\ stage.kind = "coeval"
    /\ hist.setups < MaxSetups
    /\ LET chk == check_required_cores(stage)
       IN  IF chk.err # ""
           THEN /\ ret' = Raise("setup", chk.err, chk.msg)
                /\ UNCHANGED <<stage, engine, hist>>
           ELSE LET up == update_params(stage,
                              createChainContext(chain(stage).val).params)
                    s1 == [stage EXCEPT !.astro_params = up.astro_params,
                                        !.cosmo_params = up.cosmo_params]
                IN  /\ ret' = Ok("setup", <<>>)
                    /\ IF InitForChain(s1)
                       THEN \E sd \in EngineSeeds(s1.initial_conditions_seed) :
                              LET call == setup_init_and_perturb(s1, sd)
                              IN  /\ stage' = [s1 EXCEPT !.initial_conditions_seed =
                                                   SeedAfterSetup(s1, call.ic)]
                                  /\ engine' = [engine EXCEPT !.nextId = @ + 1]
                                  /\ hist' = [hist EXCEPT !.setups = @ + 1,
                                                          !.setupCall = call]
                       ELSE /\ stage' = s1
                            /\ hist' = [hist EXCEPT !.setups = @ + 1,
                                                    !.setupCall = NoCall]
                            /\ UNCHANGED engine
    /\ UNCHANGED <<chains, ctx>>
    /\ UNCHANGED aside

----------------------------------------------------------------------------
(* Actions: one sampler iteration *)

\* The sampled parameters a context of chain c can carry.
CtxParams(c) == [DOMAIN chains[c].params -> Vals]

\* The chains whose context can be handed to the stage.
CallingChains ==
    IF stage.chain = NoChain THEN DOMAIN chains ELSE {stage.chain}

\* CoreBase.build_model_data, for a core whose class does not override it.
BuildModelData(p) ==
    /\ stage.kind = "core"
    /\ ctx' = [params |-> p, data |-> <<>>]
    /\ ret' = Ok("build_model_data", <<>>)
    /\ UNCHANGED <<stage, chains, engine, hist>>
    /\ UNCHANGED aside

\* Faulty variant of CoevalBuildModelData: the overlay of the iteration is
\* kept as the fiducial parameters of the stage.
CoevalBuildModelData_Leak(p) ==
    /\ stage.kind = "coeval"
    /\ hist.iters < MaxIter
    /\ LET up == update_params(stage, p)
       IN  \E sd \in EngineSeeds(stage.initial_conditions_seed) :
             LET got == get_current_init_and_perturb(stage, up.cosmo_params, sd)
                 coeval == run_coeval(stage.redshift, up.astro_params, got.ic,
                                      stage.initial_conditions_seed)
                 added == AddVariables(stage.ctx_variables, coeval, <<>>)
             IN  /\ ctx' = [params |-> p, data |-> added.data]
                 /\ ret' = IF added.err = "" THEN Ok("build_model_data", <<>>)
                           ELSE Raise("build_model_data", added.err, <<added.key>>)
                 /\ engine' = [engine EXCEPT !.nextId = @ + 1]
                 /\ hist' = [hist EXCEPT !.iters = @ + 1,
                                         !.prevBuild = hist.lastBuild,
                                         !.lastBuild = [got EXCEPT !.coeval = coeval]]
    /\ stage' = [stage EXCEPT !.astro_params = update_params(stage, p).astro_params,
                              !.cosmo_params = update_params(stage, p).cosmo_params]
    /\ UNCHANGED chains
    /\ UNCHANGED aside

\* CoreCoevalModule.build_model_data on a new context with parameters p.
CoevalBuildModelData(p) ==
    /\ stage.kind = "coeval"
    /\ hist.iters < MaxIter
    /\ LET up == update_params(stage, p)
       IN  \E sd \in EngineSeeds(stage.initial_conditions_seed) :
             LET got == get_current_init_and_perturb(stage, up.cosmo_params, sd)
                 coeval == run_coeval(stage.redshift, up.astro_params, got.ic,
                                      stage.initial_conditions_seed)
                 added == AddVariables(stage.ctx_variables, coeval, <<>>)
             IN  /\ ctx' = [params |-> p, data |-> added.data]
                 /\ ret' = IF added.err = "" THEN Ok("build_model_data", <<>>)
                           ELSE Raise("build_model_data", added.err, <<added.key>>)
                 /\ engine' = [engine EXCEPT !.nextId = @ + 1]
                 /\ hist' = [hist EXCEPT !.iters = @ + 1,
                                         !.prevBuild = hist.lastBuild,
                                         !.lastBuild = [got EXCEPT !.coeval = coeval]]
    /\ UNCHANGED <<stage, chains>>
    /\ UNCHANGED aside

----------------------------------------------------------------------------
(* Inputs *)

NoParams == <<>>    \* a chain built without parameters

\* The parameters of a chain that samples the names of S, at initial value v.
ParamsOf(S, v) == [k \in S |-> v]

\* required_cores declarations of the stage's class.
RequiredChoices ==
    { <<>>,
      <<Single("CoreCoevalModule")>>,
      <<Single("CoreLightConeModule")>>,
      <<Group(<<"CoreLightConeModule", "CoreLuminosityFunction">>)>>,
      <<Single("CoreLightConeModule"), Single("CoreLuminosityFunction")>>,
      <<Single("CoreCoevalModule"), Single("CoreLightConeModule")>>,
      <<Single("CoreLuminosityFunction"),
        Group(<<"CoreLightConeModule", "UserCore">>)>> }

\* Classes of the other core modules loaded into a chain.
LoadedClasses == {"CoreCoevalModule", "CoreLightConeModule", "CoreLuminosityFunction"}

DefaultCtxVariables == <<"brightness_temp", "xH_box">>

CoevalArgs(redshifts, seeds, changes, regenerates, variables) ==
    [redshift : redshifts, astro_params : {DefaultAstro},
     cosmo_params : {DefaultCosmo}, regenerate : regenerates,
     change_seed_every_iter : changes, ctx_variables : variables,
     initial_conditions_seed : seeds, cache_mcmc : {FALSE}]

----------------------------------------------------------------------------
(* Specification of a stage's life in a chain: construction, attachment,   *)
(* setup and the chain dependent properties.  The sampler iterations of a  *)
(* CoreCoevalModule are followed under SpecCoeval.                         *)

LifeParams == {NoParams, ParamsOf({"HII_EFF_FACTOR"}, 1)}

LifeCoevalArgs ==
    CoevalArgs({List(<<6>>)}, {NoSeed}, {FALSE}, {TRUE}, {DefaultCtxVariables})

Init ==
    /\ stage = NoStage
    /\ \E p \in LifeParams :
         chains = [c \in ChainIds |-> NewChain(IF c = 1 THEN p ELSE NoParams)]
    /\ engine = [nextId |-> 1]
    /\ ctx = NoCtx
    /\ ret = NoRet
    /\ hist = NoHist
    /\ InitAside

Next ==
    \/ \E rq \in RequiredChoices : Construct("module", "UserLikelihood", rq)
    \/ \E rq \in RequiredChoices : Construct("core", "UserCore", rq)
    \/ \E a \in LifeCoevalArgs : ConstructCoeval(a)
    \/ \E cls \in LoadedClasses : AddCoreModule(1, cls)
    \/ \E c \in ChainIds : AttachCore(c)
    \/ \E c \in ChainIds : AttachLikelihood(c)
    \/ GetChain
    \/ GetParameterNames
    \/ GetCores
    \/ GetRqCores
    \/ GetCorePrimary
    \/ Setup
    \/ CoevalSetup
    \/ \E c \in CallingChains : \E p \in CtxParams(c) : BuildModelData(p)

Spec == Init /\ [][Next]_vars

----------------------------------------------------------------------------
(* Specification of the seed and caching policy of CoreCoevalModule *)

SampledSets ==
    { {}, {"HII_EFF_FACTOR"}, {"SIGMA_8"}, {"SIGMA_8", "unknown_param"} }

SeedCoevalArgs ==
    CoevalArgs({Scalar(6), List(<<6, 7>>)}, SeedArgs, BOOLEAN, BOOLEAN,
               {DefaultCtxVariables})

InitCoeval ==
    /\ stage = NoStage
    /\ \E S \in SampledSets : chains = [c \in {1} |-> NewChain(ParamsOf(S, 1))]
    /\ engine = [nextId |-> 1]
    /\ ctx = NoCtx
    /\ ret = NoRet
    /\ hist = NoHist
    /\ InitAside

NextCoeval ==
    \/ \E a \in SeedCoevalArgs : ConstructCoeval(a)
    \/ AttachCore(1)
    \/ CoevalSetup
    \/ \E c \in CallingChains : \E p \in CtxParams(c) : CoevalBuildModelData(p)

SpecCoeval == InitCoeval /\ [][NextCoeval]_vars

----------------------------------------------------------------------------
(* Properties of the seed and caching policy (under SpecCoeval) *)

\* The stage is a set-up CoreCoevalModule.
CoevalSetUp == stage.kind = "coeval" /\ stage.chain # NoChain /\ hist.setups >= 1

\* Some sampled parameter name of the stage's chain is a cosmological one.
CosmoSampled == (DOMAIN chains[stage.chain].params) \cap CosmoNames # {}

\* The last build_model_data ran after the last setup().
BuiltAfterSetup == hist.lastBuild.made /\ hist.lastBuild.setups = hist.setups

\* The redshifts of a list of perturbed fields.
RedshiftsOf(perturb) == [i \in DOMAIN perturb |-> perturb[i].redshift]

C2_DistinctSeeds ==
    (CoevalSetUp /\ stage.change_seed_every_iter
        /\ BuiltAfterSetup /\ hist.prevBuild.made
        /\ hist.prevBuild.setups = hist.setups)
        => hist.lastBuild.ic.random_seed # hist.prevBuild.ic.random_seed

\* C3: a stage constructed with change_seed_every_iter true has no
\* initial_conditions_seed, whatever integer was supplied.
C3_SeedDiscarded ==
    (ret.op = "__init__" /\ stage.kind = "coeval" /\ stage.change_seed_every_iter)
        => stage.initial_conditions_seed = NoSeed

\* C4: when change_seed_every_iter is true or a cosmological parameter is
\* sampled, setup() requests nothing from the engine, and every
\* build_model_data requests initial conditions for the cosmological
\* parameters of that iteration's overlay and one perturbed field per
\* redshift on them.
C4_EveryIteration ==
    (CoevalSetUp /\ (stage.change_seed_every_iter \/ CosmoSampled))
        => /\ ~hist.setupCall.made
           /\ BuiltAfterSetup =>
                /\ \A k \in CosmoNames :
                      hist.lastBuild.cosmo_params[k] =
                        IF k \in DOMAIN ctx.params THEN ctx.params[k]
                        ELSE stage.cosmo_params[k]
                /\ hist.lastBuild.ic.cosmo_params = hist.lastBuild.cosmo_params
                /\ hist.lastBuild.ic.id = engine.nextId - 1
                /\ RedshiftsOf(hist.lastBuild.perturb) = stage.redshift
                /\ \A i \in DOMAIN hist.lastBuild.perturb :
                      hist.lastBuild.perturb[i].init_boxes = hist.lastBuild.ic.id

\* C4 witness: after setup(), an iteration sampled a cosmological value
\* other than the fiducial one, following an earlier iteration.
C4_Witness ==
    /\ CoevalSetUp /\ CosmoSampled /\ ~stage.change_seed_every_iter
    /\ BuiltAfterSetup /\ hist.prevBuild.made
    /\ \E k \in CosmoNames : ctx.params[k] # stage.cosmo_params[k]
    /\ Len(stage.redshift) = 2

----------------------------------------------------------------------------
(* Properties of setup and of the chain dependent properties (under Spec) *)

\* Requirement rc has an instance among the loaded cores cs.
HasInstance(rc, cs) ==
    \E k \in DOMAIN cs : \E j \in DOMAIN rc.members :
        rc.members[j] \in Mro(cs[k].cls)

\* The last call was setup() on an attached stage of the given kind.
SetupCalled(kind) == ret.op = "setup" /\ stage.kind = kind /\ ret.at.attached

\* C5: a core declaring required_cores = (A,) fails setup() with a
\* ValueError exactly when no loaded core is an instance of A.
C5_CoreRequirement ==
    (SetupCalled("core") /\ Len(stage.required_cores) = 1
        /\ ~stage.required_cores[1].tuple)
        => (ret.err = "ValueError"
              <=> ~HasInstance(stage.required_cores[1], ret.at.cores))
           /\ ret.err \in {"", "ValueError"}

\* C6: setup() of a module using ModuleBase's check succeeds if and only
\* if every group of required_cores has an instance among the loaded cores.
C6_AllGroups ==
    SetupCalled("module")
        => /\ ret.err \in {"", "ValueError"}
           /\ ret.err = "" <=>
                \A i \in DOMAIN stage.required_cores :
                    HasInstance(stage.required_cores[i], ret.at.cores)

\* C6 witness: setup() failed although one of two groups was satisfied.
C6_Witness ==
    /\ SetupCalled("module") /\ ret.err = "ValueError"
    /\ Len(stage.required_cores) = 2
    /\ \E i \in DOMAIN stage.required_cores :
          HasInstance(stage.required_cores[i], ret.at.cores)

\* C7: the ValueError of a failed setup() names a requirement that has no
\* loaded instance: the class, or a class of the group.
C7_NamesRequirement ==
    (ret.op = "setup" /\ ret.err = "ValueError")
        => \E i \in DOMAIN stage.required_cores :
              /\ ~HasInstance(stage.required_cores[i], ret.at.cores)
              /\ \E j \in DOMAIN stage.required_cores[i].members :
                    ret.msg[2] = stage.required_cores[i].members[j]

\* C8: is_setup is false before the first successful setup() and true
\* after it, and setup() after a successful setup() raises
\* AlreadySetupError.
C8_SetupOnce ==
    stage # NoStage
        => /\ stage.is_setup <=> hist.setups >= 1
           /\ (ret.op = "setup" /\ ret.at.setups >= 1)
                 => ret.err = "AlreadySetupError"

\* C9: on an attached stage that has not been set up, _cores, _rq_cores,
\* core_primary and build_model_data raise NotSetupError.
C9_NotSetup ==
    (ret.op \in {"_cores", "_rq_cores", "core_primary", "build_model_data"}
        /\ ret.at.attached /\ ret.at.setups = 0)
        => ret.err = "NotSetupError"

\* The chain the stage has been loaded into, 0 if none.
LoadedInto ==
    LET cs == {c \in DOMAIN chains :
                 \/ \E i \in DOMAIN chains[c].cores :
                       chains[c].cores[i].id = SubjectId
                 \/ chains[c].likelihoods # <<>>}
    IN  IF cs = {} THEN NoChain ELSE CHOOSE c \in cs : TRUE

ChainOps == {"chain", "parameter_names", "_cores", "_rq_cores", "core_primary"}

\* C10 (as claimed): on a stage not attached to a chain, chain,
\* parameter_names, _cores, _rq_cores, core_primary and setup() raise
\* NotAChain; once attached, chain is the chain the stage was loaded into.
C10_NotAttached ==
    /\ (ret.op \in ChainOps \cup {"setup"} /\ ~ret.at.attached)
          => ret.err = "NotAChain"
    /\ (ret.op = "chain" /\ ret.at.attached)
          => ret.err = "" /\ ret.val = LoadedInto

\* C10 (amended): as claimed, except that setup() of an unattached module
\* that uses ModuleBase's check and declares no required_cores succeeds,
\* since that check reads the chain only inside its loop over required_cores.
C10_NotAttachedUnlessNothingRequired ==
    /\ (ret.op \in ChainOps /\ ~ret.at.attached) => ret.err = "NotAChain"
    /\ (ret.op = "setup" /\ ~ret.at.attached)
          => IF stage.kind = "module" /\ stage.required_cores = <<>>
             THEN ret.err = ""
             ELSE ret.err = "NotAChain"
    /\ (ret.op = "chain" /\ ret.at.attached)
          => ret.err = "" /\ ret.val = LoadedInto

\* C10 witness: setup() was refused on an unattached module that declares
\* required_cores.
C10_Witness ==
    /\ ret.op = "setup" /\ ~ret.at.attached /\ ret.err = "NotAChain"
    /\ stage.kind = "module" /\ stage.required_cores # <<>>

----------------------------------------------------------------------------
(* build_computation_chain (mcmc.py) *)

MaxModules == 2     \* longest list of modules handed to build_computation_chain

\* A core_modules / likelihood_modules argument: one instance, or a list.
Instance(m) ==
    [list |-> FALSE, obj |-> m, seq |-> <<>>]
ListOf(ms) ==
    [list |-> TRUE, obj |-> [id |-> 0, kind |-> "none", cls |-> "object",
                             required_cores |-> <<>>, chain |-> NoChain],
     seq |-> ms]

\* A module handed to build_computation_chain: an instance, known by id, of
\* a class that inherits ModuleBase.setup.
BuildModule(id, kind, cls, rq) ==
    [id |-> id, kind |-> kind, cls |-> cls, required_cores |-> rq,
     chain |-> NoChain]

\* Faulty variant of AsList: a single instance is not wrapped.
AsList_NotWrapped(x) == x.seq

\* if not hasattr(x, "__len__"): x = [x]
AsList(x) == IF x.list THEN x.seq ELSE <<x.obj>>

\* The modules chain.setup() goes through: the cores and then the
\* likelihoods, each in the order it was loaded.
SetupOrder == builder.core_modules \o builder.likelihood_modules

\* Where build_computation_chain continues once i modules of the list at
\* position pc have been handled.
RECURSIVE BuildPc(_, _, _)
BuildPc(pc, i, b) ==
    IF pc = "addCoreModule" /\ i < Len(b.core_modules)
    THEN [pc |-> "addCoreModule", i |-> i + 1]
    ELSE IF pc = "addCoreModule"
    THEN BuildPc("addLikelihoodModule", 0, b)
    ELSE IF pc = "addLikelihoodModule" /\ i < Len(b.likelihood_modules)
    THEN [pc |-> "addLikelihoodModule", i |-> i + 1]
    ELSE IF pc = "addLikelihoodModule"
    THEN BuildPc("setup", 0, b)
    ELSE IF i < Len(b.core_modules) + Len(b.likelihood_modules)
    THEN [pc |-> "setup", i |-> i + 1]
    ELSE [pc |-> "return", i |-> 0]

\* build_computation_chain(core_modules, likelihood_modules, params) up to
\* the construction of the chain.
BuildStart(core_modules, likelihood_modules, params) ==
    /\ builder.pc = "idle"
    /\ LET b == [pc |-> "addCoreModule", i |-> 0,
                 args |-> [core_modules |-> core_modules,
                           likelihood_modules |-> likelihood_modules],
                 core_modules |-> AsList(core_modules),
                 likelihood_modules |-> AsList(likelihood_modules)]
           to == BuildPc("addCoreModule", 0, b)
       IN  builder' = [b EXCEPT !.pc = to.pc, !.i = to.i]
    /\ chains' = [c \in {1} |-> NewChain(params)]
    /\ calls' = <<>>
    /\ ret' = NoRet
    /\ UNCHANGED <<stage, engine, ctx, hist, other, storage>>

\* chain.addCoreModule(cm) for the next cm of core_modules.
BuildAddCoreModule ==
    /\ builder.pc = "addCoreModule"
    /\ LET i == builder.i
           cm == builder.core_modules[i]
           to == BuildPc("addCoreModule", i, builder)
       IN  /\ chains' = [chains EXCEPT ![1].cores =
                            Append(@, [id |-> cm.id, cls |-> cm.cls])]
           /\ builder' = [builder EXCEPT !.core_modules[i].chain = 1,
                                         !.pc = to.pc, !.i = to.i]
           /\ calls' = Append(calls, <<"addCoreModule", cm.id>>)
    /\ UNCHANGED <<stage, engine, ctx, ret, hist, other, storage>>

\* chain.addLikelihoodModule(lk) for the next lk of likelihood_modules.
BuildAddLikelihoodModule ==
    /\ builder.pc = "addLikelihoodModule"
    /\ LET i == builder.i
           lk == builder.likelihood_modules[i]
           to == BuildPc("addLikelihoodModule", i, builder)
       IN  /\ chains' = [chains EXCEPT ![1].likelihoods =
                            Append(@, [id |-> lk.id, cls |-> lk.cls])]
           /\ builder' = [builder EXCEPT !.likelihood_modules[i].chain = 1,
                                         !.pc = to.pc, !.i = to.i]
           /\ calls' = Append(calls, <<"addLikelihoodModule", lk.id>>)
    /\ UNCHANGED <<stage, engine, ctx, ret, hist, other, storage>>

\* chain.setup(): setup() of the next module, the cores first; an exception
\* of a module's setup() ends build_computation_chain.
BuildSetup ==
    /\ builder.pc = "setup"
    /\ LET m == SetupOrder[builder.i]
           chk == check_required_cores(m)
           to == BuildPc("setup", builder.i, builder)
       IN  /\ calls' = Append(calls, <<"setup", m.id>>)
           /\ IF chk.err # ""
              THEN /\ builder' = [builder EXCEPT !.pc = "raised"]
                   /\ ret' = Raise("build_computation_chain", chk.err, chk.msg)
              ELSE /\ builder' = [builder EXCEPT !.pc = to.pc, !.i = to.i]
                   /\ UNCHANGED ret
    /\ UNCHANGED <<stage, chains, engine, ctx, hist, other, storage>>

\* return chain
BuildReturn ==
    /\ builder.pc = "return"
    /\ builder' = [builder EXCEPT !.pc = "returned"]
    /\ ret' = Ok("build_computation_chain", 1)
    /\ UNCHANGED <<stage, chains, engine, ctx, hist, other, storage, calls>>

\* The modules a caller hands over: cores with and without a requirement,
\* likelihoods that require nothing, a loaded core, or a core that is absent.
BuildCores(id) ==
    { BuildModule(id, "core", "UserCore", rq) :
        rq \in { <<>>, <<Single("CoreCoevalModule")>> } }
BuildLikelihoods(id) ==
    { BuildModule(id, "module", "UserLikelihood", rq) :
        rq \in { <<>>, <<Single("UserCore")>>, <<Single("CoreCoevalModule")>> } }

\* The modules that can stand at position id of the list of a kind.
BuildChoices(kind, id) ==
    IF kind = "core" THEN BuildCores(id) ELSE BuildLikelihoods(id)

\* The lists of at most n modules of a kind, the module at position i having
\* the id first + i.
RECURSIVE ModuleLists(_, _, _)
ModuleLists(kind, first, n) ==
    IF n = 0 THEN { <<>> }
    ELSE LET shorter == ModuleLists(kind, first, n - 1)
         IN  shorter \cup
             { Append(ms, m) : ms \in {l \in shorter : Len(l) = n - 1},
                               m \in BuildChoices(kind, first + n) }

\* A single module, or a list of at most MaxModules modules.
BuildArgs(kind, first) ==
    { Instance(m) : m \in BuildChoices(kind, first + 1) }
        \cup { ListOf(ms) : ms \in ModuleLists(kind, first, MaxModules) }

InitBuild ==
    /\ stage = NoStage
    /\ chains = <<>>
    /\ engine = [nextId |-> 1]
    /\ ctx = NoCtx
    /\ ret = NoRet
    /\ hist = NoHist
    /\ InitAside

NextBuild ==
    \/ \E cm \in BuildArgs("core", 0) :
         \E lk \in BuildArgs("module", MaxModules) :
           \E params \in LifeParams : BuildStart(cm, lk, params)
    \/ BuildAddCoreModule
    \/ BuildAddLikelihoodModule
    \/ BuildSetup
    \/ BuildReturn

SpecBuild == InitBuild /\ [][NextBuild]_vars

\* The ids of the modules of an argument, a single instance counting as a
\* list of one.
IdsOf(x) == IF x.list THEN [i \in DOMAIN x.seq |-> x.seq[i].id] ELSE <<x.obj.id>>

\* The calls build_computation_chain is to make for its arguments.
ExpectedCalls(args) ==
    LET cm == IdsOf(args.core_modules)
        lk == IdsOf(args.likelihood_modules)
    IN  [i \in DOMAIN cm |-> <<"addCoreModule", cm[i]>>]
        \o [i \in DOMAIN lk |-> <<"addLikelihoodModule", lk[i]>>]
        \o [i \in DOMAIN cm |-> <<"setup", cm[i]>>]
        \o [i \in DOMAIN lk |-> <<"setup", lk[i]>>]

IsPrefix(s, t) == Len(s) <= Len(t) /\ s = SubSeq(t, 1, Len(s))

\* C11: build_computation_chain attaches every core module in the order
\* given and then every likelihood module in the order given before any
\* setup() is invoked, then invokes setup() on every core module in that
\* order and afterwards on every likelihood module in that order; a single
\* module given in place of a list counts as a list of one.  At every
\* moment the calls made so far are an initial part of that sequence, and
\* all of it once the chain is returned.
C11_AttachThenSetup ==
    builder.pc # "idle" =>
        /\ IsPrefix(calls, ExpectedCalls(builder.args))
        /\ builder.pc = "returned" => calls = ExpectedCalls(builder.args)

\* A chain was returned for a single core module and a list of two
\* likelihood modules.
C11_Witness ==
    /\ builder.pc = "returned"
    /\ ~builder.args.core_modules.list
    /\ Len(builder.args.likelihood_modules.seq) = 2
    /\ Len(calls) = 6

----------------------------------------------------------------------------
(* CoreBase.simulate_mock and CoreBase.__call__ *)

\* Faulty variant of simulate_mock: the conversion to a mock is left out.
simulate_mock_BuildOnly(before, built) == << <<"build_model_data", before>> >>

\* The calls of CoreBase.simulate_mock(ctx) when build_model_data returns:
\* before is the context handed in, built the same context as
\* build_model_data leaves it.
simulate_mock(before, built) ==
    << <<"build_model_data", before>>, <<"convert_model_to_mock", built>> >>

\* The calls of CoreBase.__call__(ctx).
call(before) == << <<"build_model_data", before>> >>

\* stage.simulate_mock(ctx), for a core whose class overrides neither
\* build_model_data nor convert_model_to_mock.
SimulateMock(p) ==
    /\ stage.kind = "core"
    /\ LET c == [params |-> p, data |-> <<>>]
       IN  /\ ctx' = c
           /\ calls' = simulate_mock(c, c)
    /\ ret' = Ok("simulate_mock", <<>>)
    /\ UNCHANGED <<stage, chains, engine, hist, other, storage, builder>>

\* stage(ctx), for a core whose class does not override build_model_data.
Call(p) ==
    /\ stage.kind = "core"
    /\ LET c == [params |-> p, data |-> <<>>]
       IN  /\ ctx' = c
           /\ calls' = call(c)
    /\ ret' = Ok("__call__", <<>>)
    /\ UNCHANGED <<stage, chains, engine, hist, other, storage, builder>>

\* stage.simulate_mock(ctx) and stage(ctx) of a CoreCoevalModule, whose
\* build_model_data is CoreCoevalModule's and whose convert_model_to_mock is
\* CoreBase's; an exception of build_model_data ends the call.
CoevalInvoke(op, p) ==
    /\ stage.kind = "coeval"
    /\ hist.iters < MaxIter
    /\ LET up == update_params(stage, p)
       IN  \E sd \in EngineSeeds(stage.initial_conditions_seed) :
             LET got == get_current_init_and_perturb(stage, up.cosmo_params, sd)
                 coeval == run_coeval(stage.redshift, up.astro_params, got.ic,
                                      stage.initial_conditions_seed)
                 added == AddVariables(stage.ctx_variables, coeval, <<>>)
                 before == [params |-> p, data |-> <<>>]
                 built == [params |-> p, data |-> added.data]
             IN  /\ ctx' = built
                 /\ calls' = IF added.err # "" \/ op = "__call__" THEN call(before)
                             ELSE simulate_mock(before, built)
                 /\ ret' = IF added.err = "" THEN Ok(op, <<>>)
                           ELSE Raise(op, added.err, <<added.key>>)
                 /\ engine' = [engine EXCEPT !.nextId = @ + 1]
                 /\ hist' = [hist EXCEPT !.iters = @ + 1,
                                         !.prevBuild = hist.lastBuild,
                                         !.lastBuild = [got EXCEPT !.coeval = coeval]]
    /\ UNCHANGED <<stage, chains, other, storage, builder>>

CoevalSimulateMock(p) == CoevalInvoke("simulate_mock", p)
CoevalCall(p) == CoevalInvoke("__call__", p)

----------------------------------------------------------------------------
(* Specification of what a stage writes to the context: redshifts and      *)
(* ctx_variables of a CoreCoevalModule, simulate_mock and __call__         *)

FieldsRedshifts == {Scalar(6), List(<<6>>), List(<<7, 6>>)}

\* ctx_variables with and without a name that is no attribute of Coeval.
FieldsCtxVariables ==
    { <<"xH_box">>,
      DefaultCtxVariables,
      <<"xH_box", "not_a_field", "brightness_temp">>,
      <<"not_a_field">> }

FieldsCoevalArgs ==
    CoevalArgs(FieldsRedshifts, {1}, {FALSE}, {FALSE}, FieldsCtxVariables)

InitFields ==
    /\ stage = NoStage
    /\ chains = [c \in {1} |-> NewChain(ParamsOf({"HII_EFF_FACTOR"}, 1))]
    /\ engine = [nextId |-> 1]
    /\ ctx = NoCtx
    /\ ret = NoRet
    /\ hist = NoHist
    /\ InitAside

NextFields ==
    \/ Construct("core", "UserCore", <<>>)
    \/ \E a \in FieldsCoevalArgs : ConstructCoeval(a)
    \/ AttachCore(1)
    \/ Setup
    \/ CoevalSetup
    \/ \E p \in CtxParams(1) : BuildModelData(p)
    \/ \E p \in CtxParams(1) : SimulateMock(p)
    \/ \E p \in CtxParams(1) : Call(p)
    \/ \E p \in CtxParams(1) : CoevalBuildModelData(p)
    \/ \E p \in CtxParams(1) : CoevalSimulateMock(p)
    \/ \E p \in CtxParams(1) : CoevalCall(p)

SpecFields == InitFields /\ [][NextFields]_vars

\* C12: when simulate_mock(ctx) returns it has invoked build_model_data
\* once and then convert_model_to_mock once and nothing else, the first on
\* the context it was handed and the second on that context as
\* build_model_data left it; __call__(ctx) invokes build_model_data once and
\* never convert_model_to_mock.
C12_BuildThenConvert ==
    /\ ret.op = "simulate_mock" /\ ret.err = "" =>
          /\ Len(calls) = 2
          /\ calls[1] = <<"build_model_data", [params |-> ctx.params, data |-> <<>>]>>
          /\ calls[2] = <<"convert_model_to_mock", ctx>>
    /\ ret.op = "__call__" =>
          calls = << <<"build_model_data", [params |-> ctx.params, data |-> <<>>]>> >>

\* simulate_mock returned on a CoreCoevalModule whose build_model_data wrote
\* to the context.
C12_Witness ==
    /\ ret.op = "simulate_mock"
    /\ ret.err = ""
    /\ stage.kind = "coeval"
    /\ DOMAIN ctx.data # {}

----------------------------------------------------------------------------
(* Properties of the parameter overlay (under SpecCoeval) *)

\* The value the overlay is to give the field k of a structure whose
\* fiducial values are fid, for the sampled parameters params.
Overlaid(fid, params, k) == IF k \in DOMAIN params THEN params[k] ELSE fid[k]

\* C13: the structures build_model_data hands to the engine have exactly
\* the fields of the fiducial structures; each astrophysical and each
\* cosmological field has the sampled value when its name is sampled and
\* the fiducial value otherwise, and a sampled name that is a field of
\* neither structure appears in neither.
C13_Overlay ==
    BuiltAfterSetup =>
        /\ DOMAIN hist.lastBuild.cosmo_params = CosmoNames
        /\ \A k \in CosmoNames :
             hist.lastBuild.cosmo_params[k]
                = Overlaid(stage.cosmo_params, ctx.params, k)
        /\ \A i \in DOMAIN hist.lastBuild.coeval :
             /\ DOMAIN hist.lastBuild.coeval[i].astro_params = AstroNames
             /\ \A k \in AstroNames :
                  hist.lastBuild.coeval[i].astro_params[k]
                     = Overlaid(stage.astro_params, ctx.params, k)

\* An iteration sampled a cosmological value other than the fiducial one
\* together with a name that is a field of neither structure, and left the
\* astrophysical field at its fiducial value.
C13_Witness ==
    /\ BuiltAfterSetup
    /\ DOMAIN ctx.params = {"SIGMA_8", "unknown_param"}
    /\ ctx.params["SIGMA_8"] # stage.cosmo_params["SIGMA_8"]
    /\ hist.lastBuild.cosmo_params["SIGMA_8"] = ctx.params["SIGMA_8"]
    /\ hist.lastBuild.coeval # <<>>

----------------------------------------------------------------------------
(* Properties of the context entries and the redshifts (under SpecFields) *)

\* The last call on the stage ran CoreCoevalModule.build_model_data.
CoevalBuilt ==
    /\ stage.kind = "coeval"
    /\ ret.op \in {"build_model_data", "simulate_mock", "__call__"}

\* The names of ctx_variables that are no attribute of the engine's Coeval.
NotFields ==
    {stage.ctx_variables[i] : i \in DOMAIN stage.ctx_variables} \ CoevalFields

C15_UnknownField ==
    CoevalBuilt /\ NotFields # {} =>
        /\ ret.err = "ValueError"
        /\ Len(ret.msg) = 1
        /\ ret.msg[1] \in NotFields
        /\ NotFields \cap DOMAIN ctx.data = {}

\* build_model_data raised on the second of three ctx_variables, after the
\* first one was added to the context.
C15_Witness ==
    /\ CoevalBuilt
    /\ ret.err = "ValueError"
    /\ stage.ctx_variables = <<"xH_box", "not_a_field", "brightness_temp">>
    /\ DOMAIN ctx.data = {"xH_box"}

\* C16: a stage constructed with the scalar redshift z has the redshift
\* sequence <<z>>, the same as the stage constructed with the list [z] from
\* otherwise equal arguments; the redshift attribute of every constructed
\* stage is a sequence, and that of a stage constructed with a list is that
\* list, in its order.
C16_RedshiftSequence ==
    stage.kind = "coeval" /\ ret.op = "__init__" =>
        LET a == ret.val
            listed == [a EXCEPT !.redshift = List(<<a.redshift.num>>)]
        IN  /\ stage.redshift \in Seq(Nat)
            /\ a.redshift.scalar =>
                  /\ stage.redshift = <<a.redshift.num>>
                  /\ stage.redshift = CoevalInit(listed).redshift
            /\ ~a.redshift.scalar => stage.redshift = a.redshift.seq

\* A stage was constructed with the scalar redshift 6.
C16_Witness ==
    /\ stage.kind = "coeval"
    /\ ret.op = "__init__"
    /\ ret.val.redshift = Scalar(6)
    /\ stage.redshift = <<6>>

----------------------------------------------------------------------------
(* ModuleBase.__eq__ *)

\* A value that is a number (or None, 0), or a numpy array with more than
\* one element.
Num(v) == [array |-> FALSE, v |-> v]
Array(v) == [array |-> TRUE, v |-> v]

\* The attributes that hold a number or an array.
NumOrArray == {"_sigma", "data"}

\* inspect.getfullargspec(cls.__init__).args: the positional parameters of
\* the __init__ that cls defines or inherits; keyword-only parameters and
\* the names taken by **kwargs are not among them.
InitArgs(cls) ==
    CASE cls = "CoreBase" -> {"self", "store"}
      [] cls = "UserCore" -> {"self", "store"}
      [] cls = "CoreCoevalModule" ->
            {"self", "redshift", "user_params", "flag_options", "astro_params",
             "cosmo_params", "regenerate", "change_seed_every_iter",
             "ctx_variables", "initial_conditions_seed", "global_params"}
      [] cls = "CoreLightConeModule" -> {"self"}
      [] cls = "CoreLuminosityFunction" -> {"self", "sigma", "name", "n_muv_bins"}
      [] OTHER -> {"self"}

\* args of __eq__: the parameters of every class of self.__class__.mro().
DefiningArgs(cls) == UNION {InitArgs(c) : c \in Mro(cls) \cup {"object"}}

\* _extra_defining_attributes and _ignore_attributes of a class; the user's
\* likelihood declares an attribute that its own code assigns.
ExtraDefining(cls) == IF cls = "UserLikelihood" THEN <<"data">> ELSE <<>>
IgnoreAttributes(cls) ==
    IF IsInstance(cls, "CoreCoevalModule") THEN {"keep_data_in_memory"} ELSE {}

\* Every name a caller can pass to the constructor of cls.
ConstructorArgs(cls) ==
    CASE cls = "UserLikelihood" -> {}
      [] cls = "UserCore" -> {"store"}
      [] OTHER ->
            (DefiningArgs("CoreCoevalModule") \ {"self"})
                \cup {"cache_dir", "cache_mcmc", "keep_data_in_memory"}
                \cup (IF cls = "CoreLightConeModule" THEN {"max_redshift"} ELSE {})
                \cup (IF cls = "CoreLuminosityFunction"
                      THEN {"sigma", "name", "n_muv_bins"} ELSE {})

\* The constructor arguments at their defaults, with the redshift 6.
DefaultArgs ==
    [redshift |-> Scalar(6), user_params |-> 0, flag_options |-> 0,
     astro_params |-> DefaultAstro, cosmo_params |-> DefaultCosmo,
     regenerate |-> TRUE, change_seed_every_iter |-> FALSE,
     ctx_variables |-> DefaultCtxVariables, initial_conditions_seed |-> NoSeed,
     global_params |-> 0, store |-> <<>>, cache_dir |-> 0, cache_mcmc |-> FALSE,
     keep_data_in_memory |-> FALSE, max_redshift |-> 0, sigma |-> Num(0),
     name |-> "", n_muv_bins |-> 100]

\* An object that does not exist yet.
NoInstance ==
    [kind |-> "none", cls |-> "object", chain |-> NoChain, attrs |-> <<>>,
     args |-> DefaultArgs]

\* The instance cls(**x): its attributes after __init__, and the arguments
\* it was constructed with.
InstanceOf(cls, x) ==
    LET s == CoevalInit(x)
        module == "_is_setup" :> FALSE
        coeval ==
            [store |-> x.store,
             redshift |-> s.redshift,
             user_params |-> x.user_params,
             flag_options |-> x.flag_options,
             astro_params |-> s.astro_params,
             cosmo_params |-> s.cosmo_params,
             change_seed_every_iter |-> s.change_seed_every_iter,
             initial_conditions_seed |-> s.initial_conditions_seed,
             regenerate |-> s.regenerate,
             ctx_variables |-> s.ctx_variables,
             global_params |-> x.global_params,
             io_options |-> [store |-> x.store, cache_dir |-> x.cache_dir,
                             cache_mcmc |-> x.cache_mcmc,
                             keep_data_in_memory |-> x.keep_data_in_memory]]
        own == CASE cls = "CoreLightConeModule" ->
                      "max_redshift" :> x.max_redshift
                 [] cls = "CoreLuminosityFunction" ->
                      [name |-> x.name, n_muv_bins |-> x.n_muv_bins]
                          @@ ("_sigma" :> x.sigma)
                 [] OTHER -> <<>>
    IN  [kind |-> "instance", cls |-> cls, chain |-> NoChain,
         attrs |-> IF IsInstance(cls, "CoreCoevalModule")
                   THEN module @@ coeval @@ own ELSE module,
         args |-> x]

\* hasattr(o, name)
HasAttr(o, name) == name \in DOMAIN o.attrs

\* One pass of the loop of __eq__ for the name arg: "same" and "differ"
\* for values that compare, "notfound" and "incomparable" for the two
\* warnings, "AttributeError" when getattr(other, ...) raises.  Only self is
\* asked whether it has the attribute; comparing with an array raises the
\* ValueError that is caught.
EqStep(self, oth, arg) ==
    LET n == IF HasAttr(self, "_" \o arg) THEN "_" \o arg ELSE arg
    IN  IF ~HasAttr(self, n) THEN "notfound"
        ELSE IF ~HasAttr(oth, n) THEN "AttributeError"
        ELSE IF n \in NumOrArray /\ (self.attrs[n].array \/ oth.attrs[n].array)
        THEN "incomparable"
        ELSE IF self.attrs[n] # oth.attrs[n] THEN "differ"
        ELSE "same"

\* The first pass over the names of a sequence that ends the loop.
RECURSIVE EqExtra(_, _, _)
EqExtra(self, oth, names) ==
    IF names = <<>> THEN "same"
    ELSE IF Head(names) \in IgnoreAttributes(self.cls)
    THEN EqExtra(self, oth, Tail(names))
    ELSE IF EqStep(self, oth, Head(names)) \in {"differ", "AttributeError"}
    THEN EqStep(self, oth, Head(names))
    ELSE EqExtra(self, oth, Tail(names))

\* self == other: the outcomes "True", "False" and "AttributeError" the call
\* can have.  The constructor arguments are gone through in the order of a
\* set, which is any order, and the extra attributes after them.
eq(self, oth) ==
    LET args == (DefiningArgs(self.cls) \ {"self"}) \ IgnoreAttributes(self.cls)
        ends == {EqStep(self, oth, a) : a \in args}
                    \cap {"differ", "AttributeError"}
        last == EqExtra(self, oth, ExtraDefining(self.cls))
    IN  IF self.cls # oth.cls THEN {"False"}
        ELSE IF ends # {}
        THEN {IF e = "differ" THEN "False" ELSE e : e \in ends}
        ELSE IF last = "differ" THEN {"False"}
        ELSE IF last = "AttributeError" THEN {"AttributeError"}
        ELSE {"True"}

\* Two modules are constructed, of the classes cls and cls2 from the
\* arguments x and y.
EqConstruct(cls, x, cls2, y) ==
    /\ stage = NoInstance
    /\ stage' = InstanceOf(cls, x)
    /\ other' = InstanceOf(cls2, y)
    /\ ret' = Ok("__init__", <<>>)
    /\ UNCHANGED <<chains, engine, ctx, hist, calls, storage, builder>>

\* The user's code assigns self.data = v on the left or the right module.
SetData(left, v) ==
    /\ stage.kind = "instance"
    /\ stage.cls = "UserLikelihood"
    /\ IF left
       THEN /\ stage' = [stage EXCEPT !.attrs = ("data" :> v) @@ @]
            /\ UNCHANGED other
       ELSE /\ other' = [other EXCEPT !.attrs = ("data" :> v) @@ @]
            /\ UNCHANGED stage
    /\ ret' = Ok("__setattr__", <<>>)
    /\ UNCHANGED <<chains, engine, ctx, hist, calls, storage, builder>>

\* stage == other
Compare ==
    /\ stage.kind = "instance"
    /\ \E out \in eq(stage, other) :
         ret' = IF out = "AttributeError" THEN Raise("__eq__", out, <<>>)
                ELSE Ok("__eq__", out)
    /\ UNCHANGED <<stage, chains, engine, ctx, hist, other, calls, storage, builder>>

\* The other values of a constructor argument.
OtherValues(name) ==
    CASE name = "redshift" -> {List(<<6>>), List(<<6, 7>>), Scalar(7)}
      [] name = "astro_params" -> {[k \in AstroNames |-> 1]}
      [] name = "cosmo_params" -> {[k \in CosmoNames |-> 1]}
      [] name \in {"regenerate"} -> {FALSE}
      [] name \in {"change_seed_every_iter", "cache_mcmc", "keep_data_in_memory"}
            -> {TRUE}
      [] name = "ctx_variables" -> {<<"xH_box">>}
      [] name = "initial_conditions_seed" -> {0, 1}
      [] name = "store" -> {<<[name |-> "xH", field |-> "xH_box"]>>}
      [] name = "sigma" -> {Num(1), Array(1), Array(2)}
      [] name = "name" -> {"z6"}
      [] name = "n_muv_bins" -> {50}
      [] OTHER -> {1}

\* The arguments of the first module, and those of a second module that is
\* given the same arguments or a different value for one of them.
EqFirstArgs ==
    { DefaultArgs,
      [DefaultArgs EXCEPT !.change_seed_every_iter = TRUE],
      [DefaultArgs EXCEPT !.sigma = Array(1)] }
EqSecondArgs(cls, x) ==
    {x} \cup UNION { { [x EXCEPT ![n] = v] : v \in OtherValues(n) } :
                        n \in ConstructorArgs(cls) }

EqClasses ==
    {"CoreCoevalModule", "CoreLightConeModule", "CoreLuminosityFunction",
     "UserLikelihood"}

InitEq ==
    /\ stage = NoInstance
    /\ other = NoInstance
    /\ chains = <<>>
    /\ engine = [nextId |-> 1]
    /\ ctx = NoCtx
    /\ ret = NoRet
    /\ hist = NoHist
    /\ calls = <<>>
    /\ storage = <<>>
    /\ builder = NoBuilder

NextEq ==
    \/ \E cls \in EqClasses : \E x \in EqFirstArgs : \E y \in EqSecondArgs(cls, x) :
         EqConstruct(cls, x, cls, y)
    \/ \E cls \in EqClasses : \E cls2 \in EqClasses \ {cls} :
         EqConstruct(cls, DefaultArgs, cls2, DefaultArgs)
    \/ \E left \in BOOLEAN : \E v \in {Num(0), Num(1), Array(1)} : SetData(left, v)
    \/ Compare

SpecEq == InitEq /\ [][NextEq]_vars

----------------------------------------------------------------------------
(* Properties of the comparison (under SpecEq) *)

\* The two modules have just been compared and are of the same class.
Compared == ret.op = "__eq__" /\ stage.cls = other.cls

\* The constructor arguments, apart from the ignored ones, in which the two
\* modules differ.
ChangedArgs ==
    {n \in ConstructorArgs(stage.cls) \ IgnoreAttributes(stage.cls) :
        stage.args[n] # other.args[n]}

\* C17: two stages of the same class compare equal when their constructor
\* arguments are the same apart from the ignored ones, and unequal when
\* they differ in one constructor argument that is not ignored, a keyword
\* only argument (max_redshift) or an I/O option (cache_dir) included.
C17_EqualIffSameArguments ==
    Compared /\ IsInstance(stage.cls, "CoreCoevalModule") =>
        /\ ChangedArgs = {} => ret.err = "" /\ ret.val = "True"
        /\ Cardinality(ChangedArgs) = 1 => ret.err = "" /\ ret.val = "False"

\* The name under which a module stores the defining attribute arg.
StoredAs(o, arg) == IF HasAttr(o, "_" \o arg) THEN "_" \o arg ELSE arg

\* The defining attributes of the class of the two modules.
DefiningAttributes ==
    ((DefiningArgs(stage.cls) \ {"self"})
        \cup {ExtraDefining(stage.cls)[i] : i \in DOMAIN ExtraDefining(stage.cls)})
    \ IgnoreAttributes(stage.cls)

\* Both modules have the attribute and its two values compare as different.
Differ(arg) ==
    LET n == StoredAs(stage, arg)
    IN  /\ HasAttr(stage, n)
        /\ HasAttr(other, n)
        /\ n \in NumOrArray => ~stage.attrs[n].array /\ ~other.attrs[n].array
        /\ stage.attrs[n] # other.attrs[n]

\* C18: comparing two modules of the same class name raises nothing, and
\* the result is True unless some defining attribute, found on both, has
\* values that compare as different: an attribute missing on either module
\* or with values that cannot be compared does not make the result False.
C18_NeverRaises ==
    Compared =>
        /\ ret.err = ""
        /\ (\A arg \in DefiningAttributes : ~Differ(arg)) => ret.val = "True"

----------------------------------------------------------------------------
(* CoreBase.prepare_storage *)

MaxStore == 2       \* entries of a stage's store

\* A store argument: None, or a mapping held as its entries in insertion
\* order, each a name with the function stored under it.
NoneStore == [none |-> TRUE, items |-> <<>>]
StoreOf(items) == [none |-> FALSE, items |-> items]

\* CoreBase.__init__(store): self.store = store or {}
CoreInit(cls, rq, store) ==
    [ModuleInit("core", cls, rq) EXCEPT
        !.store = IF store.none \/ store.items = <<>> THEN <<>> ELSE store.items]

\* storage_function(ctx) of an extraction function that reads the entry key
\* of the context: its value, or the KeyError of a missing entry.
Extract(fn, c) ==
    IF fn.key \in DOMAIN c.data THEN Value(c.data[fn.key])
    ELSE Error("KeyError", <<fn.key>>)

\* Faulty variant of StoreLoop: the exception is logged and the loop goes on.
RECURSIVE StoreLoop_GoOn(_, _, _)
StoreLoop_GoOn(items, c, st) ==
    IF items = <<>> THEN [err |-> "", msg |-> <<>>, storage |-> st]
    ELSE LET got == Extract(Head(items).fn, c)
         IN  IF got.err # "" THEN StoreLoop_GoOn(Tail(items), c, st)
             ELSE StoreLoop_GoOn(Tail(items), c,
                                 ctx_add(st, Head(items).name, got.val))

\* The loop of prepare_storage over self.store.items(): the storage after
\* it, and the exception that ended it if one did.
RECURSIVE StoreLoop(_, _, _)
StoreLoop(items, c, st) ==
    IF items = <<>> THEN [err |-> "", msg |-> <<>>, storage |-> st]
    ELSE LET got == Extract(Head(items).fn, c)
         IN  IF got.err # "" THEN [err |-> got.err, msg |-> got.msg, storage |-> st]
             ELSE StoreLoop(Tail(items), c, ctx_add(st, Head(items).name, got.val))

\* A core is constructed with the store argument store.
ConstructWithStore(store) ==
    /\ stage = NoStage
    /\ stage' = CoreInit("UserCore", <<>>, store)
    /\ ret' = Ok("__init__", <<>>)
    /\ UNCHANGED <<chains, engine, ctx, hist, other, calls, storage, builder>>

\* stage.prepare_storage(c, st): the mapping st is remembered as it was
\* handed in, next to what the call made of it.
PrepareStorage(c, st) ==
    /\ stage.kind = "core"
    /\ LET done == StoreLoop(stage.store, c, st)
       IN  /\ storage' = [passed |-> st, now |-> done.storage]
           /\ ret' = IF done.err = "" THEN Ok("prepare_storage", <<>>)
                     ELSE Raise("prepare_storage", done.err, done.msg)
    /\ ctx' = c
    /\ UNCHANGED <<stage, chains, engine, hist, other, calls, builder>>

\* Names of store entries, and the context entries their functions read.
StoreNames == {"a", "b", "c"}
ContextKeys == {"x", "y"}

\* The stores of at most n entries, no name twice.
RECURSIVE Stores(_)
Stores(n) ==
    IF n = 0 THEN { <<>> }
    ELSE LET shorter == Stores(n - 1)
         IN  shorter \cup
             UNION { { Append(s, [name |-> nm, fn |-> [key |-> k]]) :
                          nm \in StoreNames \ {s[i].name : i \in DOMAIN s},
                          k \in ContextKeys } :
                     s \in {l \in shorter : Len(l) = n - 1} }

StoreArgs == {NoneStore} \cup {StoreOf(s) : s \in Stores(MaxStore)}

\* Contexts with none, one and both of the entries, and storage mappings
\* with and without entries of their own.
StoreContexts ==
    { [params |-> NoParams, data |-> [k \in S |-> IF k = "x" THEN 1 ELSE 2]] :
        S \in { {}, {"x"}, {"x", "y"} } }
StorageArgs == { [k \in S |-> 0] : S \in { {}, {"a"}, {"b", "c"} } }

InitStore ==
    /\ stage = NoStage
    /\ chains = <<>>
    /\ engine = [nextId |-> 1]
    /\ ctx = NoCtx
    /\ ret = NoRet
    /\ hist = NoHist
    /\ other = NoStage
    /\ calls = <<>>
    /\ storage = [passed |-> <<>>, now |-> <<>>]
    /\ builder = NoBuilder

NextStore ==
    \/ \E store \in StoreArgs : ConstructWithStore(store)
    \/ \E c \in StoreContexts : \E st \in StorageArgs : PrepareStorage(c, st)

SpecStore == InitStore /\ [][NextStore]_vars

\* The names of the store of the stage, and the positions of the entries
\* whose function raises for the context.
NamesOfStore == {stage.store[i].name : i \in DOMAIN stage.store}
Failing == {i \in DOMAIN stage.store : Extract(stage.store[i].fn, ctx).err # ""}

\* The entry of the storage under name is as it was handed in.
Untouched(name) ==
    /\ name \in DOMAIN storage.now <=> name \in DOMAIN storage.passed
    /\ name \in DOMAIN storage.passed => storage.now[name] = storage.passed[name]

\* C19: when every extraction function returns, prepare_storage leaves
\* under every name of the store what its function returns for the context
\* and every other entry of the storage as it was; when one raises, its
\* exception reaches the caller and the entries of its name and of every
\* name after it in the store are as they were.
C19_PrepareStorage ==
    ret.op = "prepare_storage" =>
        /\ Failing = {} =>
              /\ ret.err = ""
              /\ DOMAIN storage.now = DOMAIN storage.passed \cup NamesOfStore
              /\ \A i \in DOMAIN stage.store :
                   storage.now[stage.store[i].name]
                      = Extract(stage.store[i].fn, ctx).val
              /\ \A name \in DOMAIN storage.passed \ NamesOfStore : Untouched(name)
        /\ Failing # {} =>
              /\ ret.err = Extract(stage.store[Min(Failing)].fn, ctx).err
              /\ \A i \in DOMAIN stage.store :
                   i >= Min(Failing) => Untouched(stage.store[i].name)

\* The function of the second of two entries raised after the first entry
\* was written.
C19_Witness ==
    /\ ret.op = "prepare_storage"
    /\ ret.err = "KeyError"
    /\ Len(stage.store) = 2
    /\ Failing = {2}
    /\ stage.store[1].name \in DOMAIN storage.now \ DOMAIN storage.passed
    /\ stage.store[2].name \in DOMAIN storage.passed

----------------------------------------------------------------------------
(* CoreLuminosityFunction *)

MaxBins == 3        \* largest n_muv_bins

NaN == -1           \* the value np.isnan is true of

\* The noise specifications of the class comment: a float, a callable (the
\* function that returns k for every magnitude array), a 1-D array or list
\* of numbers, and a list of specifications (a list of callables; a 2-D
\* array is the list of its rows).
Float(x) == [kind |-> "float", v |-> <<x>>, rows |-> <<>>]
Callable(k) == [kind |-> "callable", v |-> <<k>>, rows |-> <<>>]
Array1(xs) == [kind |-> "array", v |-> xs, rows |-> <<>>]
ListOfSigma(ss) == [kind |-> "list", v |-> <<>>, rows |-> ss]

\* hasattr(s, "__len__"), len(s) and the entries of s in iteration order.
SigmaHasLen(s) == s.kind \in {"array", "list"}
SigmaLen(s) == IF s.kind = "array" THEN Len(s.v) ELSE Len(s.rows)
SigmaItem(s, i) == IF s.kind = "array" THEN Float(s.v[i]) ELSE s.rows[i]

\* [s] * n
Repeated(s, n) == ListOfSigma([i \in 1 .. n |-> s])

\* CoreLuminosityFunction.__init__
LFInit(a) ==
    [CoevalInit(a) EXCEPT !.kind = "lf", !.cls = "CoreLuminosityFunction",
                          !._sigma = a.sigma,
                          !.name = a.name, !.n_muv_bins = a.n_muv_bins]

\* What p21.compute_luminosity_function returns when the luminosity
\* function is a number in the bins valid[i] of redshift i and NaN in the
\* others: per redshift, the magnitude and halo mass of every bin with the
\* value of the luminosity function there.
LFResult(valid, nbins) ==
    [Muv |-> [i \in DOMAIN valid |-> [j \in 1 .. nbins |-> 10 * i + j]],
     mhalo |-> [i \in DOMAIN valid |-> [j \in 1 .. nbins |-> 100 + 10 * i + j]],
     lfunc |-> [i \in DOMAIN valid |->
                  [j \in 1 .. nbins |->
                      IF j \in valid[i] THEN 1000 + 10 * i + j ELSE NaN]]]

\* The results the engine can return for a stage.
LFResults(s) ==
    {LFResult(valid, s.n_muv_bins) :
        valid \in [DOMAIN s.redshift -> SUBSET (1 .. s.n_muv_bins)]}

\* Faulty variant of Masked: a bin whose value is NaN is set to 0.
RECURSIVE Masked_Zeroed(_, _)
Masked_Zeroed(l, m) ==
    IF l = <<>> THEN <<>>
    ELSE (IF Head(l) # NaN THEN <<Head(m)>> ELSE <<0>>)
            \o Masked_Zeroed(Tail(l), Tail(m))

\* m[~np.isnan(l)]: the entries of m where l is not NaN, in order.
RECURSIVE Masked(_, _)
Masked(l, m) ==
    IF l = <<>> THEN <<>>
    ELSE (IF Head(l) # NaN THEN <<Head(m)>> ELSE <<>>) \o Masked(Tail(l), Tail(m))

\* CoreLuminosityFunction(**a)
ConstructLF(a) ==
    /\ stage = NoStage
    /\ stage' = LFInit(a)
    /\ ret' = Ok("__init__", a)
    /\ UNCHANGED <<chains, engine, ctx, hist, other, storage, builder, calls>>

\* CoreLuminosityFunction.build_model_data on a new context with parameters
\* p, self.run returning raw; the call of self.run is remembered.
LFBuildModelData(p, raw) ==
    /\ stage.kind = "lf"
    /\ LET up == update_params(stage, p)
           every == DOMAIN raw.lfunc
           Muv == [i \in every |-> Masked(raw.lfunc[i], raw.Muv[i])]
           mhalo == [i \in every |-> Masked(raw.lfunc[i], raw.mhalo[i])]
           lfunc == [i \in every |-> Masked(raw.lfunc[i], raw.lfunc[i])]
       IN  /\ calls' = << <<"run", [astro_params |-> up.astro_params,
                                    cosmo_params |-> up.cosmo_params,
                                    result |-> raw]>> >>
           /\ ctx' = [params |-> p,
                      data |-> ctx_add(<<>>, "luminosity_function" \o stage.name,
                                  [Muv |-> Muv, mhalo |-> mhalo, lfunc |-> lfunc])]
    /\ ret' = Ok("build_model_data", <<>>)
    /\ UNCHANGED <<stage, chains, engine, hist, other, storage, builder>>

\* Faulty variant of sigma: whatever has a length is returned as it is.
sigma_AsGiven(self) ==
    IF self._sigma = NoneSigma THEN NoneSigma
    ELSE IF ~SigmaHasLen(self._sigma) THEN Repeated(self._sigma, Len(self.redshift))
    ELSE self._sigma

\* CoreLuminosityFunction.sigma
sigma(self) ==
    IF self._sigma = NoneSigma THEN NoneSigma
    ELSE IF ~SigmaHasLen(self._sigma) \/ SigmaLen(self._sigma) # Len(self.redshift)
         THEN Repeated(self._sigma, Len(self.redshift))
    ELSE self._sigma

\* The deviates np.random.normal can draw, in units of the scale.
Deviates == {-1, 1}

\* np.random.normal(loc=0, scale=scale, size=size) drawing the deviate d:
\* a number is the scale of every value, an array of one number likewise,
\* an array of size numbers gives each value its scale; an array of another
\* length or of two dimensions cannot be broadcast to size, and a function
\* is not a number.
normal(scale, size, d) ==
    IF scale.kind = "float" \/ (scale.kind = "array" /\ Len(scale.v) = 1)
    THEN Value([j \in 1 .. size |-> d * scale.v[1]])
    ELSE IF scale.kind = "array" /\ Len(scale.v) = size
    THEN Value([j \in 1 .. size |-> d * scale.v[j]])
    ELSE IF scale.kind = "callable"
            \/ (scale.kind = "list" /\ \E i \in DOMAIN scale.rows :
                                          scale.rows[i].kind = "callable")
    THEN Error("TypeError", <<>>)
    ELSE Error("ValueError", <<>>)

\* The loop of convert_model_to_mock from redshift i on, u[i] being the
\* deviate drawn at redshift i and made the calls made so far: s(muv) of a
\* callable is the number it returns, s(muv) of anything else raises the
\* TypeError that makes s itself the scale.  An exception leaves the
\* redshifts before i with their noise.
RECURSIVE MockLoop(_, _, _, _, _)
MockLoop(sg, lfunc, u, i, made) ==
    IF i > SigmaLen(sg) THEN [err |-> "", lfunc |-> lfunc, calls |-> made]
    ELSE IF i > Len(lfunc) THEN [err |-> "IndexError", lfunc |-> lfunc, calls |-> made]
    ELSE LET s == SigmaItem(sg, i)
             scale == IF s.kind = "callable" THEN Float(s.v[1]) ELSE s
             size == Len(lfunc[i])
             noise == normal(scale, size, u[i])
             now == Append(made, <<"normal", [i |-> i, scale |-> scale, size |-> size]>>)
         IN  IF noise.err # "" THEN [err |-> noise.err, lfunc |-> lfunc, calls |-> now]
             ELSE MockLoop(sg,
                           [lfunc EXCEPT ![i] = [j \in 1 .. size |-> @[j] + noise.val[j]]],
                           u, i + 1, now)

\* Faulty variant of convert_model_to_mock: the context is read before
\* sigma is looked at.
convert_model_to_mock_ReadFirst(self, c, u) ==
    LET key == "luminosity_function" \o self.name
        read == << <<"ctx.get", key>>, <<"ctx.get", key>> >>
    IN  IF sigma(self) = NoneSigma
        THEN [err |-> "ValueError", data |-> c.data, calls |-> read]
        ELSE LET done == MockLoop(sigma(self), c.data[key].lfunc, u, 1, read)
             IN  [err |-> done.err, calls |-> done.calls,
                  data |-> [c.data EXCEPT ![key].lfunc = done.lfunc]]

\* CoreLuminosityFunction.convert_model_to_mock on the context c: the
\* exception raised, the data of the context afterwards, and the reads of
\* the context and the draws made.
convert_model_to_mock(self, c, u) ==
    LET key == "luminosity_function" \o self.name
        read == << <<"ctx.get", key>>, <<"ctx.get", key>> >>
    IN  IF sigma(self) = NoneSigma
        THEN [err |-> "ValueError", data |-> c.data, calls |-> <<>>]
        ELSE LET done == MockLoop(sigma(self), c.data[key].lfunc, u, 1, read)
             IN  [err |-> done.err, calls |-> done.calls,
                  data |-> [c.data EXCEPT ![key].lfunc = done.lfunc]]

\* stage.sigma
LFSigma ==
    /\ stage.kind = "lf"
    /\ ret' = Ok("sigma", sigma(stage))
    /\ UNCHANGED <<stage, chains, engine, ctx, hist, other, storage, builder, calls>>

\* stage.convert_model_to_mock(ctx), the context being the one the stage
\* has just built (simulate_mock) or, when there is no sigma, any.
LFConvertModelToMock(u) ==
    /\ stage.kind = "lf"
    /\ stage._sigma = NoneSigma \/ ret.op = "build_model_data"
    /\ LET out == convert_model_to_mock(stage, ctx, u)
       IN  /\ ctx' = [ctx EXCEPT !.data = out.data]
           /\ calls' = out.calls
           /\ ret' = IF out.err = "" THEN Ok("convert_model_to_mock", <<>>)
                     ELSE Raise("convert_model_to_mock", out.err, <<>>)
    /\ UNCHANGED <<stage, chains, engine, hist, other, storage, builder>>

\* The noise specifications tried: none, a float, a callable, 1-D arrays
\* and lists of callables of every length up to MaxBins, and the 2-D arrays
\* of one and two rows.
LFSigmas ==
    {NoneSigma, Float(2), Callable(3)}
    \cup {Array1([j \in 1 .. n |-> j + 1]) : n \in 1 .. MaxBins}
    \cup {ListOfSigma([i \in 1 .. n |-> Callable(i + 2)]) : n \in 1 .. MaxBins}
    \cup {ListOfSigma([i \in 1 .. r |-> Array1([j \in 1 .. n |-> i + j])]) :
             r \in 1 .. 2, n \in 1 .. MaxBins}

LFArgs ==
    { [DefaultArgs EXCEPT !.redshift = z, !.name = nm, !.n_muv_bins = n,
                          !.sigma = NoneSigma] :
        z \in {Scalar(6), List(<<6, 7>>)}, nm \in {"", "z6"}, n \in 1 .. MaxBins }

InitLF ==
    /\ stage = NoStage
    /\ chains = [c \in {1} |-> NewChain(ParamsOf({"HII_EFF_FACTOR"}, 1))]
    /\ engine = [nextId |-> 1]
    /\ ctx = NoCtx
    /\ ret = NoRet
    /\ hist = NoHist
    /\ InitAside

NextLF ==
    \/ \E a \in LFArgs : ConstructLF(a)
    \/ \E p \in CtxParams(1) : \E raw \in LFResults(stage) : LFBuildModelData(p, raw)

SpecLF == InitLF /\ [][NextLF]_vars

\* The bins of redshift i whose raw value is a number, and the k-th of
\* them.
Valid(raw, i) == {j \in DOMAIN raw.lfunc[i] : raw.lfunc[i][j] # NaN}
KthValid(raw, i, k) ==
    CHOOSE j \in Valid(raw, i) : Cardinality({x \in Valid(raw, i) : x <= j}) = k

\* C20: after build_model_data of a luminosity function stage the context
\* entry holds, for each redshift, as many values of lfunc, Muv and mhalo
\* as the raw luminosity function has values that are not NaN, the k-th of
\* each being the raw value in the k-th bin that is not NaN.
C20_FilteredAligned ==
    stage.kind = "lf" /\ ret.op = "build_model_data" =>
        LET raw == calls[1][2].result
            out == ctx.data["luminosity_function" \o stage.name]
        IN  \A i \in DOMAIN stage.redshift :
              /\ Len(out.lfunc[i]) = Cardinality(Valid(raw, i))
              /\ Len(out.Muv[i]) = Cardinality(Valid(raw, i))
              /\ Len(out.mhalo[i]) = Cardinality(Valid(raw, i))
              /\ \A k \in 1 .. Cardinality(Valid(raw, i)) :
                   /\ out.lfunc[i][k] = raw.lfunc[i][KthValid(raw, i, k)]
                   /\ out.Muv[i][k] = raw.Muv[i][KthValid(raw, i, k)]
                   /\ out.mhalo[i][k] = raw.mhalo[i][KthValid(raw, i, k)]

\* A build whose raw result has a NaN between two values at the first of
\* two redshifts and only NaN at the second.
C20_Witness ==
    /\ stage.kind = "lf"
    /\ ret.op = "build_model_data"
    /\ calls[1][2].result.lfunc = << <<1011, NaN, 1013>>, <<NaN, NaN, NaN>> >>
    /\ ctx.data["luminosity_function" \o stage.name].Muv = << <<11, 13>>, <<>> >>

----------------------------------------------------------------------------
(* CoreLuminosityFunction: sigma and convert_model_to_mock.  Stages named
   "z6" with every noise specification of LFSigmas; the engine returns a
   luminosity function that is a number in every bin or in every bin but
   the last. *)

MockArgs ==
    { [DefaultArgs EXCEPT !.redshift = z, !.name = "z6", !.n_muv_bins = n,
                          !.sigma = sg] :
        z \in {Scalar(6), List(<<6, 7>>)}, n \in 1 .. MaxBins, sg \in LFSigmas }

MockResults(s) ==
    {LFResult(valid, s.n_muv_bins) :
        valid \in [DOMAIN s.redshift ->
                     {1 .. s.n_muv_bins, 1 .. (s.n_muv_bins - 1)}]}

InitMock == InitLF

NextMock ==
    \/ \E a \in MockArgs : ConstructLF(a)
    \/ \E raw \in MockResults(stage) :
          LFBuildModelData(ParamsOf({"HII_EFF_FACTOR"}, 1), raw)
    \/ LFSigma
    \/ \E u \in [DOMAIN stage.redshift -> Deviates] : LFConvertModelToMock(u)

SpecMock == InitMock /\ [][NextMock]_vars

\* C21: convert_model_to_mock of a luminosity function stage that has no
\* sigma raises ValueError, having read nothing from the context and
\* leaving the context as it was.
C21_NoSigma ==
    [][ret'.op = "convert_model_to_mock" /\ stage.kind = "lf"
          /\ stage._sigma = NoneSigma
        => /\ ret'.err = "ValueError"
           /\ calls' = <<>>
           /\ ctx' = ctx]_vars

\* A stage without sigma has refused to make a mock of the context it
\* built.
C21_Witness ==
    /\ ret.op = "convert_model_to_mock"
    /\ ret.err = "ValueError"
    /\ stage._sigma = NoneSigma
    /\ calls = <<>>
    /\ "luminosity_function" \o stage.name \in DOMAIN ctx.data

\* C22: the sigma of a luminosity function stage that was given one (a
\* float, a callable, a sequence of any length) has as many entries as the
\* stage has redshifts, and each of them is the float or the callable when
\* that is what was given.
C22_OnePerRedshift ==
    ret.op = "sigma" /\ stage._sigma # NoneSigma =>
        /\ SigmaHasLen(ret.val)
        /\ SigmaLen(ret.val) = Len(stage.redshift)
        /\ stage._sigma.kind \in {"float", "callable"} =>
              \A i \in 1 .. SigmaLen(ret.val) : SigmaItem(ret.val, i) = stage._sigma

\* The sigma of a stage with two redshifts that was given three callables
\* has been read: it is the list of the three, twice.
C22_Witness ==
    /\ ret.op = "sigma"
    /\ Len(stage.redshift) = 2
    /\ stage._sigma = ListOfSigma(<<Callable(3), Callable(4), Callable(5)>>)
    /\ ret.val = ListOfSigma(<<stage._sigma, stage._sigma>>)

\* The draws of the last convert_model_to_mock.
Draws == {k \in DOMAIN calls : calls[k][1] = "normal"}

\* The standard deviation of each of size values drawn with scale, or the
\* exception of the draw.
PerBin(scale, size) == normal(scale, size, 1)

\* C23: convert_model_to_mock of a stage whose sigma is a 1-D array draws
\* the noise of every redshift with the whole array as the standard
\* deviations of the bins, one draw per redshift when none raises.
C23_ArrayPerBin ==
    ret.op = "convert_model_to_mock" /\ stage._sigma.kind = "array" =>
        /\ \A k \in Draws :
              PerBin(calls[k][2].scale, calls[k][2].size)
                 = PerBin(stage._sigma, calls[k][2].size)
        /\ ret.err = "" => Cardinality(Draws) = Len(stage.redshift)

----------------------------------------------------------------------------
(* The stage across iterations (under SpecCoeval) *)

\* C24: a build_model_data of a set-up stage leaves the stage's fiducial
\* astro_params and cosmo_params, its initial_conditions_seed, its redshift
\* and its ctx_variables as they were, so that after every iteration they
\* are what setup() left.
C24_StageUnchanged ==
    [][CoevalSetUp /\ hist'.iters # hist.iters
        => /\ stage'.astro_params = stage.astro_params
           /\ stage'.cosmo_params = stage.cosmo_params
           /\ stage'.initial_conditions_seed = stage.initial_conditions_seed
           /\ stage'.redshift = stage.redshift
           /\ stage'.ctx_variables = stage.ctx_variables]_vars

\* Two iterations have run after setup(), the last with a sampled value
\* that is not the fiducial one and a seed that setup() took from the
\* engine.
C24_Witness ==
    /\ CoevalSetUp /\ BuiltAfterSetup
    /\ hist.prevBuild.made /\ hist.prevBuild.setups = hist.setups
    /\ hist.setupCall.made /\ hist.setupCall.random_seed = NoSeed
    /\ stage.initial_conditions_seed = hist.setupCall.ic.random_seed
    /\ \E k \in DOMAIN ctx.params \cap AstroNames :
          ctx.params[k] # stage.astro_params[k]

----------------------------------------------------------------------------
(* _rq_cores and core_primary (under Spec) *)

\* The cores of cs that are an instance of a class of req and not among
\* seen, each once, in the order of the classes of req and, for one class,
\* in the order of cs.
RECURSIVE InRequirementOrder(_, _, _)
InRequirementOrder(cs, req, seen) ==
    IF req = <<>> THEN <<>>
    ELSE LET hit == SelectSeq(cs, LAMBDA c :
                        IsInstance(c.cls, Head(req)) /\ c.id \notin seen)
         IN  hit \o InRequirementOrder(cs, Tail(req),
                        seen \cup {hit[k].id : k \in DOMAIN hit})

\* C25: _rq_cores is the loaded cores that are an instance of a class of
\* required_cores, each once, in the order of the requirements;
\* core_primary is the first of _rq_cores, or the first loaded core when
\* _rq_cores is empty.
C25_RequiredInOrder ==
    LET loaded == ret.at.cores
        req == flatten(stage.required_cores)
    IN  /\ ret.op = "_rq_cores" /\ ret.err = "" =>
              ret.val = InRequirementOrder(loaded, req, {})
        /\ ret.op = "core_primary" /\ ret.err = "" =>
              ret.val = IF RqOver(loaded, req) # <<>> THEN RqOver(loaded, req)[1]
                        ELSE loaded[1]

----------------------------------------------------------------------------
(* The seed after setup (under SpecCoeval) *)

\* C26: when setup() of an attached CoreCoevalModule initializes the boxes
\* for the entire chain (change_seed_every_iter false, no cosmological
\* parameter sampled), the stage's initial_conditions_seed is the seed of
\* the initial conditions setup() computed, and every build_model_data
\* after it passes that seed to the request for initial conditions, so
\* that consecutive iterations pass and get the same seed.
C26_SetupSeed ==
    (CoevalSetUp /\ ~stage.change_seed_every_iter /\ ~CosmoSampled)
        => /\ hist.setupCall.made
           /\ stage.initial_conditions_seed = hist.setupCall.ic.random_seed
           /\ stage.initial_conditions_seed \in Seeds
           /\ BuiltAfterSetup =>
                /\ hist.lastBuild.random_seed = stage.initial_conditions_seed
                /\ hist.lastBuild.ic.random_seed = stage.initial_conditions_seed
                /\ hist.prevBuild.made /\ hist.prevBuild.setups = hist.setups =>
                      /\ hist.prevBuild.random_seed = hist.lastBuild.random_seed
                      /\ hist.prevBuild.ic.random_seed = hist.lastBuild.ic.random_seed

\* A stage was set up twice, the second setup() passing the seed 1 that the
\* stage holds, and has run two iterations since, each passing the seed 1
\* and getting initial conditions of its own.
C26_Witness ==
    /\ CoevalSetUp /\ ~stage.change_seed_every_iter /\ ~CosmoSampled
    /\ hist.setups = 2
    /\ hist.setupCall.made /\ hist.setupCall.random_seed = 1
    /\ BuiltAfterSetup
    /\ hist.prevBuild.made /\ hist.prevBuild.setups = 2
    /\ hist.lastBuild.random_seed = 1
    /\ hist.lastBuild.ic.id # hist.prevBuild.ic.id

====
